---- MODULE Spec2Model ----
(***************************************************************************)
(* Reconciliation of an enrollment table (cadastros) against a scoring     *)
(* table (consultores / pontuacao), as done by the three scripts of the    *)
(* repository:                                                             *)
(*    "process"    : process.py            (matching + historico ledger)   *)
(*    "hyphen"     : analise-pontuacao.py  (matching + summary)            *)
(*    "underscore" : analise_pontuacao.py  (matching with name+branch key) *)
(* Tables hold the canonical columns the scripts compute with clean_cpf    *)
(* and norm_name.  A canonical name is the sequence of its tokens; every   *)
(* token of the model is one letter.                                       *)
(***************************************************************************)
EXTENDS Integers, Sequences, FiniteSets, TLC

VARIABLES variant, inp, cad, cons, dfCad, dfCons, pc, i, results,
          consultores_sem_cad, written, hist, now, run, prev

vars == <<variant, inp, cad, cons, dfCad, dfCons, pc, i, results,
          consultores_sem_cad, written, hist, now, run, prev>>

----------------------------------------------------------------------------
(* Bounds of the model *)

MaxCad == 2      \* rows of the enrollment table
MaxCons == 2     \* rows of the scoring table
MaxClock == 2    \* distinct values of datetime.utcnow()
MaxRuns == 2     \* runs of process.py over one historico file

(* Canonical values the tables are drawn from *)
CPFs == {"", "1"}
NameA == <<"A">>
NameAB == <<"A", "B">>
NameAC == <<"A", "C">>
Metrics == {3, 7}
NaN == -1           \* an empty cell of a metric column
NotANumber == -2    \* a cell of a metric column holding text that is no number
Concluido == "Cadastro Concluido"   \* the Status value kept by analise_pontuacao.py

SeqsUpTo(S, n) == UNION {[1..k -> S] : k \in 0..n}

----------------------------------------------------------------------------
(* Helpers over sequences *)

Idx(s) == 1..Len(s)

Max(S) == CHOOSE x \in S : \A y \in S : y <= x

Min(S) == CHOOSE x \in S : \A y \in S : x <= y

\* rows of s kept, in order, whose positions are in K
RECURSIVE SubSeqAt(_, _, _)
SubSeqAt(s, K, k) ==
    IF k > Len(s) THEN <<>>
    ELSE (IF k \in K THEN <<s[k]>> ELSE <<>>) \o SubSeqAt(s, K, k + 1)

----------------------------------------------------------------------------
(* rapidfuzz.fuzz.token_set_ratio on canonical names made of one-letter     *)
(* tokens.  The score is kept in hundredths of a point, rounded down, so    *)
(* 10000 is the score 100.                                                  *)

Toks(name) == {name[k] : k \in Idx(name)}

\* length of " ".join(tokens) for one-letter tokens
JoinedLen(T) == IF T = {} THEN 0 ELSE 2 * Cardinality(T) - 1

\* Indel distance of the two joined differences: the token sets are disjoint,
\* so the longest common subsequence is made of separators only
DiffDist(dab, dba) ==
    LET lcs == IF dab = {} \/ dba = {} THEN 0
               ELSE Min({Cardinality(dab), Cardinality(dba)}) - 1
    IN  JoinedLen(dab) + JoinedLen(dba) - 2 * lcs

NormDist(dist, lensum) ==
    IF lensum = 0 THEN 10000 ELSE (10000 * (lensum - dist)) \div lensum

TokenSetRatio(s1, s2) ==
    LET a == Toks(s1)
        b == Toks(s2)
        sect == a \cap b
        dab == a \ b
        dba == b \ a
        sectLen == JoinedLen(sect)
        sep == IF sectLen = 0 THEN 0 ELSE 1
        sectAbLen == sectLen + sep + JoinedLen(dab)
        sectBaLen == sectLen + sep + JoinedLen(dba)
        result == NormDist(DiffDist(dab, dba), sectAbLen + sectBaLen)
        sectAbRatio == NormDist(sep + JoinedLen(dab), sectLen + sectAbLen)
        sectBaRatio == NormDist(sep + JoinedLen(dba), sectLen + sectBaLen)
    IN  IF a = {} \/ b = {} THEN 0
        ELSE IF sect # {} /\ (dab = {} \/ dba = {}) THEN 10000
        ELSE IF sectLen = 0 THEN result
        ELSE Max({result, sectAbRatio, sectBaRatio})

FuzzyThreshold == 10000

----------------------------------------------------------------------------
(* Rows of the tables and of the outputs *)

CadRow(c, n, b, st) == [cpf |-> c, nome |-> n, conc |-> b, status |-> st]

ConsRow(c, n, b, m) == [cpf |-> c, nome |-> n, conc |-> b, metric |-> m]

\* one entry of results: the enrollment row's keys, the tier that resolved it,
\* the scoring row it was resolved against (0: none) and the metric reported
Outcome(row, tier, src, m) ==
    [cpf |-> row.cpf, nome |-> row.nome, tier |-> tier, src |-> src, metric |-> m]

NoMatch == [tier |-> "NONE", src |-> 0]

Hit(tier, src) == [tier |-> tier, src |-> src]

----------------------------------------------------------------------------
(* The input files and their columns.  A sheet holds some of the columns    *)
(* below, in this order; a row of the model keeps a field for a column the  *)
(* sheet lacks, which no script can then read.                              *)

\* the metric column each script looks for
MetricHeader(v) == IF v = "hyphen" THEN "Pontuacao" ELSE "Amostra"

CadHeaders == <<"CPF", "Nome", "Concessionaria">>

ConsHeaders(v) == <<"CPF", "Nome", "Concessionaria", MetricHeader(v)>>

\* df.columns of a sheet holding the headers in present
Columns(all, present) == SubSeqAt(all, {k \in Idx(all) : all[k] \in present}, 1)

\* both files found, every column there
FullInput(v) ==
    [cadFile |-> TRUE, consFile |-> TRUE,
     cadCols |-> {CadHeaders[k] : k \in Idx(CadHeaders)},
     consCols |-> {ConsHeaders(v)[k] : k \in Idx(ConsHeaders(v))}]

None == "None"

\* c.lower()
Lower(h) ==
    CASE h = "CPF" -> "cpf"
      [] h = "Nome" -> "nome"
      [] h = "Concessionaria" -> "concessionária"
      [] h = "Amostra" -> "amostra"
      [] h = "Pontuacao" -> "pontuação"

\* the words the scripts search a header for that occur in c.lower()
Words(h) ==
    CASE h = "CPF" -> {"cpf"}
      [] h = "Nome" -> {"nome"}
      [] h = "Pontuacao" -> {"pont", "pontuação"}
      [] OTHER -> {}

\* process.py: the first candidate that is a header; else the first header
\* holding "cpf"; else the first holding "nome" or "consultor"; else None
find_col(cols, candidates) ==
    LET found == {c \in Idx(candidates) :
                    \E k \in Idx(cols) : Lower(cols[k]) = candidates[c]}
        has(w) == {k \in Idx(cols) : w \in Words(cols[k])}
    IN  IF found # {}
        THEN cols[Min({k \in Idx(cols) : Lower(cols[k]) = candidates[Min(found)]})]
        ELSE IF has("cpf") # {} THEN cols[Min(has("cpf"))]
        ELSE IF has("nome") \cup has("consultor") # {}
        THEN cols[Min(has("nome") \cup has("consultor"))]
        ELSE None

\* analise-pontuacao.py: the first header matching one of the patterns
detect_column(cols, patterns) ==
    LET hits == {k \in Idx(cols) : Words(cols[k]) \cap patterns # {}}
    IN  IF hits # {} THEN cols[Min(hits)] ELSE None

\* clean_cpf of the cell of column col: the digits of its text
CleanCpfOf(r, col) == IF col = "CPF" THEN r.cpf ELSE ""

\* norm_name of the cell of column col
NormNameOf(r, col) ==
    CASE col = "Nome" -> r.nome
      [] col = "CPF" -> IF r.cpf = "" THEN <<>> ELSE <<r.cpf>>
      [] col = "Concessionaria" -> <<r.conc>>

\* float(x) / int(x) guarded by pd.notna and try/except: 0 for a cell that
\* is empty or no number
ToNumber(m) == IF m \in {NaN, NotANumber} THEN 0 ELSE m

----------------------------------------------------------------------------
(* process.py *)

\* df_cad["__CPF"] and df_cad["__NOME_CAD"]
P_ReadCad(t, cpf_col, nome_col) ==
    [k \in Idx(t) |-> [t[k] EXCEPT !.cpf = CleanCpfOf(t[k], cpf_col),
                                   !.nome = NormNameOf(t[k], nome_col)]]

\* df_cons[amostra_col_cons].fillna(0), or 1 when no column was found; the
\* column found may be the CPF or the name column (find_col)
P_Amostra(r, col) ==
    CASE col = None -> 1
      [] col = "Amostra" -> IF r.metric = NaN THEN 0 ELSE r.metric
      [] col = "CPF" -> IF r.cpf = "" THEN 0 ELSE 1
      [] col = "Nome" -> IF r.nome = <<>> THEN 0 ELSE NotANumber

\* df_cons["__CPF"], df_cons["__NOME_CONS"] and df_cons["__AMOSTRA"]
P_ReadCons(t, cpf_col, nome_col, amostra_col) ==
    [k \in Idx(t) |->
        [t[k] EXCEPT !.cpf = IF cpf_col = None THEN "" ELSE CleanCpfOf(t[k], cpf_col),
                     !.nome = IF nome_col = None THEN <<>> ELSE NormNameOf(t[k], nome_col),
                     !.metric = P_Amostra(t[k], amostra_col)]]

\* df_cad.sort_index().drop_duplicates(subset="__CPF", keep="last")
DropDuplicatesCad(t) ==
    SubSeqAt(t, {k \in Idx(t) : \A j \in Idx(t) : j > k => t[j].cpf # t[k].cpf}, 1)

\* cons_by_cpf keeping the first row of a CPF instead of the last
cons_by_cpf_first(t) ==
    [c \in {t[k].cpf : k \in Idx(t)} \ {""} |-> Min({k \in Idx(t) : t[k].cpf = c})]

\* {r["__CPF"]: r for _, r in df_cons.iterrows() if r["__CPF"]}, as row positions
cons_by_cpf(t) ==
    [c \in {t[k].cpf : k \in Idx(t)} \ {""} |-> Max({k \in Idx(t) : t[k].cpf = c})]

\* cons_by_name[name] = r for every row with a name, in row order
cons_by_name(t) ==
    [n \in {t[k].nome : k \in Idx(t)} \ {<<>>} |-> Max({k \in Idx(t) : t[k].nome = n})]

\* the scan of cad_names: best_score / best_idx after candidates k..Len(t)
RECURSIVE FuzzyScan(_, _, _, _, _)
FuzzyScan(nome, t, k, best_score, best_idx) ==
    IF k > Len(t) THEN [score |-> best_score, idx |-> best_idx]
    ELSE LET score == TokenSetRatio(nome, t[k].nome)
         IN  IF score > best_score
             THEN FuzzyScan(nome, t, k + 1, score, k)
             ELSE FuzzyScan(nome, t, k + 1, best_score, best_idx)

\* P_Match trying the exact name before the CPF, and no fuzzy tier
P_Match_NameFirst(row, t) ==
    IF row.nome # <<>> /\ row.nome \in DOMAIN cons_by_name(t)
    THEN Hit("NOME_EXATO", cons_by_name(t)[row.nome])
    ELSE IF row.cpf # "" /\ row.cpf \in DOMAIN cons_by_cpf(t)
    THEN Hit("CPF_EXATO", cons_by_cpf(t)[row.cpf])
    ELSE NoMatch

\* P_Match accepting a best fuzzy score of 60 or more
P_Match_Loose(row, t) ==
    IF row.cpf # "" /\ row.cpf \in DOMAIN cons_by_cpf(t)
    THEN Hit("CPF_EXATO", cons_by_cpf(t)[row.cpf])
    ELSE IF row.nome # <<>> /\ row.nome \in DOMAIN cons_by_name(t)
    THEN Hit("NOME_EXATO", cons_by_name(t)[row.nome])
    ELSE IF row.nome # <<>> /\ t # <<>>
    THEN LET best == FuzzyScan(row.nome, t, 1, -1, 0)
         IN  IF best.score >= 6000
             THEN Hit("NOME_FUZZY_100", best.idx)
             ELSE NoMatch
    ELSE NoMatch

\* the three tiers of the loop body, for one row of df_cad
P_Match(row, t) ==
    IF row.cpf # "" /\ row.cpf \in DOMAIN cons_by_cpf(t)
    THEN Hit("CPF_EXATO", cons_by_cpf(t)[row.cpf])
    ELSE IF row.nome # <<>> /\ row.nome \in DOMAIN cons_by_name(t)
    THEN Hit("NOME_EXATO", cons_by_name(t)[row.nome])
    ELSE IF row.nome # <<>> /\ t # <<>>
    THEN LET best == FuzzyScan(row.nome, t, 1, -1, 0)
         IN  IF best.score = FuzzyThreshold
             THEN Hit("NOME_FUZZY_100", best.idx)
             ELSE NoMatch
    ELSE NoMatch

\* the out_record appended to results
P_OutRecord(row, t) ==
    LET m == P_Match(row, t)
    IN  IF m.src # 0
        THEN Outcome(row, m.tier, m.src, t[m.src].metric)
        ELSE Outcome(row, "CADASTRADO_NAO_PONTUOU", 0, 0)

(* The historico file.  A CPF cell of the file is the text d, or d followed *)
(* by ".0" when f holds; d = "" is the empty cell.                          *)

CsvCell(d, f) == [d |-> d, f |-> f]

\* the value pandas holds for a CPF: a str, an int64, a float64 or NaN
Cell(ty, v) == [ty |-> ty, v |-> v]

\* pd.read_csv infers the CPF column: int64 when every cell is an integer,
\* float64 (NaN for the empty cells) otherwise
load_history_safe(file) ==
    LET allInt == \A k \in Idx(file) : file[k].cpf.d # "" /\ ~file[k].cpf.f
        parse(c) == IF c.d = "" THEN Cell("nan", "")
                    ELSE IF allInt THEN Cell("int", c.d)
                    ELSE Cell("float", c.d)
    IN  [k \in Idx(file) |-> [file[k] EXCEPT !.cpf = parse(file[k].cpf)]]

\* HistNew built from the outcomes that matched a scoring row only
HistNew_MatchedOnly(res, ts) ==
    LET m == SelectSeq(res, LAMBDA r : r.src # 0)
    IN  [k \in Idx(m) |-> [cpf |-> Cell("str", m[k].cpf), nome |-> m[k].nome,
                           amostra |-> m[k].metric, data_import |-> ts]]

\* df_hist_new: one row per row of df_results, CPF as the str of the run
HistNew(res, ts) ==
    [k \in Idx(res) |-> [cpf |-> Cell("str", res[k].cpf), nome |-> res[k].nome,
                         amostra |-> res[k].metric, data_import |-> ts]]

\* what drop_duplicates compares: 1 == 1.0, "1" # 1, every NaN is one value
DupKey(c) == IF c.ty \in {"int", "float"} THEN <<"num", c.v>> ELSE <<c.ty, c.v>>

\* sort_values("data_import"): rows of equal data_import keep their order
\* (numpy sorts a column this short by insertion)
RECURSIVE SortByImport(_, _)
SortByImport(df, ts) ==
    IF ts > MaxClock THEN <<>>
    ELSE SelectSeq(df, LAMBDA r : r.data_import = ts) \o SortByImport(df, ts + 1)

\* drop_duplicates(subset=["CPF"], keep="last")
DropDuplicatesHist(df) ==
    SubSeqAt(df, {k \in Idx(df) :
                    \A j \in Idx(df) : j > k => DupKey(df[j].cpf) # DupKey(df[k].cpf)}, 1)

\* df.to_csv: the text written for each CPF value
to_csv(df) ==
    LET text(c) == CASE c.ty = "nan" -> CsvCell("", FALSE)
                     [] c.ty = "float" -> CsvCell(c.v, TRUE)
                     [] OTHER -> CsvCell(c.v, FALSE)
    IN  [k \in Idx(df) |-> [df[k] EXCEPT !.cpf = text(df[k].cpf)]]

\* the HISTORICO block: load, concat, sort, drop duplicates, write
MergeHistory(file, res, ts) ==
    to_csv(DropDuplicatesHist(SortByImport(load_history_safe(file) \o HistNew(res, ts), 1)))

NoPrev == [results |-> <<>>, now |-> 0, hist |-> <<>>]

\* main up to the lookup dicts: the files, the columns, the clean columns
P_Normalize ==
    /\ variant = "process"
    /\ pc = "start"
    /\ LET cons_cols == Columns(ConsHeaders(variant), inp.consCols)
           cad_cols == Columns(CadHeaders, inp.cadCols)
           cpf_col_cons == find_col(cons_cols, <<"cpf">>)
           nome_col_cons ==
               find_col(cons_cols, <<"nome", "nome consultor", "consultor", "nome">>)
           amostra_col_cons == find_col(cons_cols, <<"amostra", "amostra">>)
           cpf_col_cad == find_col(cad_cols, <<"cpf">>)
           nome_col_cad == find_col(cad_cols, <<"nome", "nome", "nome completo">>)
       IN  IF \/ ~inp.consFile \/ ~inp.cadFile
              \/ cpf_col_cad = None \/ nome_col_cad = None
           THEN /\ pc' = "fatal"
                /\ UNCHANGED <<dfCad, dfCons>>
           ELSE /\ dfCad' = DropDuplicatesCad(P_ReadCad(cad, cpf_col_cad, nome_col_cad))
                /\ dfCons' = P_ReadCons(cons, cpf_col_cons, nome_col_cons,
                                        amostra_col_cons)
                /\ pc' = "match"
    /\ i' = 1
    /\ UNCHANGED <<variant, inp, cad, cons, results, consultores_sem_cad, written,
                 hist, now, run, prev>>

P_MatchRow ==
    /\ variant = "process"
    /\ pc = "match"
    /\ i <= Len(dfCad)
    /\ results' = Append(results, P_OutRecord(dfCad[i], dfCons))
    /\ i' = i + 1
    /\ UNCHANGED <<variant, inp, cad, cons, dfCad, dfCons, pc,
                 consultores_sem_cad, written, hist, now, run, prev>>

\* the rows of df_cons listed in nao_cadastrados_<ts>.csv, as row positions:
\* those whose CPF is no CPF of df_cad and whose name is no name of df_cad
ConsultoresSemCad(dfcad, dfcons) ==
    LET cad_cpfs == {dfcad[k].cpf : k \in Idx(dfcad)}
        cad_nomes == {dfcad[k].nome : k \in Idx(dfcad)}
        skipped(c) == \/ c.cpf # "" /\ c.cpf \in cad_cpfs
                      \/ c.nome # <<>> /\ c.nome \in cad_nomes
    IN  SubSeqAt([j \in Idx(dfcons) |-> j],
                 {j \in Idx(dfcons) : ~skipped(dfcons[j])}, 1)

\* cadastrados_<ts>.csv and nao_cadastrados_<ts>.csv are written
P_Save ==
    /\ variant = "process"
    /\ pc = "match"
    /\ i > Len(dfCad)
    /\ consultores_sem_cad' = ConsultoresSemCad(dfCad, dfCons)
    /\ written' = written \cup {"cadastrados", "nao_cadastrados"}
    /\ pc' = "saved"
    /\ UNCHANGED <<variant, inp, cad, cons, dfCad, dfCons, i, results,
                 hist, now, run, prev>>

\* the HISTORICO block; pd.DataFrame of scalars only (no result row) raises
P_History ==
    /\ variant = "process"
    /\ pc = "saved"
    /\ IF results = <<>>
       THEN /\ pc' = "failed"
            /\ UNCHANGED <<hist, now, written>>
       ELSE \E ts \in 1..MaxClock :
              /\ now' = ts
              /\ hist' = MergeHistory(hist, results, ts)
              /\ written' = written \cup {"historico"}
              /\ pc' = "done"
    /\ UNCHANGED <<variant, inp, cad, cons, dfCad, dfCons, i, results,
                 consultores_sem_cad, run, prev>>


----------------------------------------------------------------------------
(* analise-pontuacao.py *)

\* dict(zip(df_pont["CPF_clean"], df_pont[pont_col])), as row positions
pont_by_cpf(t) ==
    [c \in {t[k].cpf : k \in Idx(t)} |-> Max({k \in Idx(t) : t[k].cpf = c})]

\* dict(zip(df_pont["NOME_clean"], df_pont[pont_col])); pont_by_fuzzy_name is
\* the same dict
pont_by_name(t) ==
    [n \in {t[k].nome : k \in Idx(t)} |-> Max({k \in Idx(t) : t[k].nome = n})]

\* process.extractOne(nome, names_for_fuzzy, scorer=fuzz.token_set_ratio): the
\* first choice of the best score, as [score, position in names_for_fuzzy]
extractOne(nome, t) ==
    LET best == Max({TokenSetRatio(nome, t[k].nome) : k \in Idx(t)})
    IN  [score |-> best,
         idx |-> Min({k \in Idx(t) : TokenSetRatio(nome, t[k].nome) = best})]

H_Match(row, t) ==
    IF row.cpf # "" /\ row.cpf \in DOMAIN pont_by_cpf(t)
    THEN Hit("CPF_EXATO", pont_by_cpf(t)[row.cpf])
    ELSE IF row.nome # <<>> /\ row.nome \in DOMAIN pont_by_name(t)
    THEN Hit("NOME_EXATO", pont_by_name(t)[row.nome])
    ELSE IF row.nome # <<>> /\ t # <<>>
    THEN LET match == extractOne(row.nome, t)
             matched_name == t[match.idx].nome
         IN  IF match.score = FuzzyThreshold
             THEN Hit("FUZZY_100", pont_by_name(t)[matched_name])
             ELSE NoMatch
    ELSE NoMatch

H_OutRecord(row, t) ==
    LET m == H_Match(row, t)
    IN  IF m.src # 0
        THEN Outcome(row, m.tier, m.src, ToNumber(t[m.src].metric))
        ELSE Outcome(row, "Nenhum", 0, 0)

\* df_cad["CPF_clean"] and df_cad["NOME_clean"]
H_ReadCad(t, cpf_col, nome_col) ==
    [k \in Idx(t) |-> [t[k] EXCEPT !.cpf = CleanCpfOf(t[k], cpf_col),
                                   !.nome = NormNameOf(t[k], nome_col)]]

\* df_pont["CPF_clean"] and df_pont["NOME_clean"]: "" when no column was found
H_ReadPont(t, cpf_col, nome_col) ==
    [k \in Idx(t) |->
        [t[k] EXCEPT !.cpf = IF cpf_col = None THEN "" ELSE CleanCpfOf(t[k], cpf_col),
                     !.nome = IF nome_col = None THEN <<>> ELSE NormNameOf(t[k], nome_col)]]

\* steps 1-5: the files, the columns, the clean columns and the lookup dicts;
\* df_cad.columns[0] or [1] raises on a sheet with too few columns
H_Normalize ==
    /\ variant = "hyphen"
    /\ pc = "start"
    /\ LET cad_cols == Columns(CadHeaders, inp.cadCols)
           pont_cols == Columns(ConsHeaders(variant), inp.consCols)
           cpf_detected == detect_column(cad_cols, {"cpf"})
           nome_detected == detect_column(cad_cols, {"nome", "consultor", "funcionario"})
           cpf_cad_col == IF cpf_detected # None THEN cpf_detected ELSE cad_cols[1]
           nome_cad_col == IF nome_detected # None THEN nome_detected ELSE cad_cols[2]
           cpf_pont_col == detect_column(pont_cols, {"cpf"})
           nome_pont_col == detect_column(pont_cols, {"nome", "consultor", "funcionario"})
           pont_col == detect_column(pont_cols, {"pont", "score", "total", "resultado",
                                                 "pontuação"})
       IN  IF \/ ~inp.cadFile \/ ~inp.consFile
              \/ cpf_detected = None /\ Len(cad_cols) < 1
              \/ nome_detected = None /\ Len(cad_cols) < 2
              \/ pont_col = None
           THEN /\ pc' = "fatal"
                /\ UNCHANGED <<dfCad, dfCons>>
           ELSE /\ dfCad' = H_ReadCad(cad, cpf_cad_col, nome_cad_col)
                /\ dfCons' = H_ReadPont(cons, cpf_pont_col, nome_pont_col)
                /\ pc' = "match"
    /\ i' = 1
    /\ UNCHANGED <<variant, inp, cad, cons, results, consultores_sem_cad, written,
                 hist, now, run, prev>>

H_MatchRow ==
    /\ variant = "hyphen"
    /\ pc = "match"
    /\ i <= Len(dfCad)
    /\ results' = Append(results, H_OutRecord(dfCad[i], dfCons))
    /\ i' = i + 1
    /\ UNCHANGED <<variant, inp, cad, cons, dfCad, dfCons, pc,
                 consultores_sem_cad, written, hist, now, run, prev>>

\* steps 7-8: the statistics and resultado_pontuacao_<ts>.xlsx; the percentage
\* total_pontuaram/total_cadastros raises on an empty table
H_Finish ==
    /\ variant = "hyphen"
    /\ pc = "match"
    /\ i > Len(dfCad)
    /\ pc' = IF results = <<>> THEN "failed" ELSE "done"
    /\ written' = IF results = <<>> THEN written
                  ELSE written \cup {"resultado_pontuacao"}
    /\ UNCHANGED <<variant, inp, cad, cons, dfCad, dfCons, i, results,
                 consultores_sem_cad, hist, now, run, prev>>

----------------------------------------------------------------------------
(* analise_pontuacao.py *)

\* pd.Series(df_pont["Amostra"].values, index=df_pont["CPF_clean"]).to_dict()
amostra_por_cpf(t) ==
    [c \in {t[k].cpf : k \in Idx(t)} |-> Max({k \in Idx(t) : t[k].cpf = c})]

\* Nome_clean + " | " + Concessionaria_clean
Chave(r) == <<r.nome, r.conc>>

amostra_por_chave(t) ==
    [c \in {Chave(t[k]) : k \in Idx(t)} |-> Max({k \in Idx(t) : Chave(t[k]) = c})]

\* IdxMax taking the last candidate row
IdxMax_Last(t, K) == Max(K)

\* idxmax raises on a column that holds text (dtype object), and the row
\* label it gives when every candidate is empty (NaN) is no row of candidatos
IdxMaxRaises(t, K) ==
    \/ \E k \in Idx(t) : t[k].metric = NotANumber
    \/ \A k \in K : t[k].metric = NaN

\* candidatos["Amostra"].idxmax(): the first row of the greatest Amostra, the
\* empty cells skipped
IdxMax(t, K) ==
    Min({k \in K : \A j \in K : t[j].metric <= t[k].metric})

\* U_Match without the name + concessionaria lookup
U_Match_NoChave(row, t) ==
    IF row.cpf # "" /\ row.cpf \in DOMAIN amostra_por_cpf(t)
    THEN Hit("CPF", amostra_por_cpf(t)[row.cpf])
    ELSE IF \E k \in Idx(t) : t[k].nome = row.nome
    THEN Hit("SO_NOME", IdxMax(t, {k \in Idx(t) : t[k].nome = row.nome}))
    ELSE NoMatch

\* the three lookups of the loop body, for one row of df_cad
U_Match(row, t) ==
    IF row.cpf # "" /\ row.cpf \in DOMAIN amostra_por_cpf(t)
    THEN Hit("CPF", amostra_por_cpf(t)[row.cpf])
    ELSE IF Chave(row) \in DOMAIN amostra_por_chave(t)
    THEN Hit("NOME_CONCESSIONARIA", amostra_por_chave(t)[Chave(row)])
    ELSE IF \E k \in Idx(t) : t[k].nome = row.nome
    THEN Hit("SO_NOME", IdxMax(t, {k \in Idx(t) : t[k].nome = row.nome}))
    ELSE NoMatch

U_OutRecord(row, t) ==
    LET m == U_Match(row, t)
    IN  IF m.src # 0
        THEN Outcome(row, m.tier, m.src, ToNumber(t[m.src].metric))
        ELSE Outcome(row, "NONE", 0, 0)

\* the loop body raises: the name-only lookup is reached and idxmax raises
U_Raises(row, t) ==
    LET m == U_Match(row, t)
    IN  /\ m.tier = "SO_NOME"
        /\ IdxMaxRaises(t, {k \in Idx(t) : t[k].nome = row.nome})

\* the files are read; df_cad[df_cad["Status"].str.strip() == "Cadastro
\* Concluído"], exit() when no row is left; then the clean columns and the
\* indexes, whose columns are looked up by their fixed headers
U_Filter ==
    /\ variant = "underscore"
    /\ pc = "start"
    /\ LET kept == SelectSeq(cad, LAMBDA r : r.status = Concluido)
       IN  IF ~inp.cadFile \/ ~inp.consFile
           THEN /\ pc' = "fatal"
                /\ UNCHANGED <<dfCad, dfCons>>
           ELSE IF kept = <<>>
           THEN /\ pc' = "stopped"
                /\ dfCad' = kept
                /\ UNCHANGED dfCons
           ELSE IF \/ ~({"CPF", "Nome", "Concessionaria"} \subseteq inp.cadCols)
                   \/ ~({"CPF", "Nome", "Concessionaria", "Amostra"} \subseteq inp.consCols)
           THEN /\ pc' = "fatal"
                /\ dfCad' = kept
                /\ UNCHANGED dfCons
           ELSE /\ pc' = "match"
                /\ dfCad' = kept
                /\ dfCons' = cons
    /\ i' = 1
    /\ UNCHANGED <<variant, inp, cad, cons, results, consultores_sem_cad, written,
                 hist, now, run, prev>>

\* one pass of the loop; an exception ends the run, nothing is written
U_MatchRow ==
    /\ variant = "underscore"
    /\ pc = "match"
    /\ i <= Len(dfCad)
    /\ IF U_Raises(dfCad[i], dfCons)
       THEN /\ pc' = "failed"
            /\ UNCHANGED <<results, i>>
       ELSE /\ results' = Append(results, U_OutRecord(dfCad[i], dfCons))
            /\ i' = i + 1
            /\ UNCHANGED pc
    /\ UNCHANGED <<variant, inp, cad, cons, dfCad, dfCons,
                 consultores_sem_cad, written, hist, now, run, prev>>

\* RESULTADO_FINAL_<ts>.xlsx with the Resultado and Resumo sheets
U_Finish ==
    /\ variant = "underscore"
    /\ pc = "match"
    /\ i > Len(dfCad)
    /\ pc' = "done"
    /\ written' = written \cup {"RESULTADO_FINAL"}
    /\ UNCHANGED <<variant, inp, cad, cons, dfCad, dfCons, i, results,
                 consultores_sem_cad, hist, now, run, prev>>

----------------------------------------------------------------------------
(* The inputs of one run *)

\* enrollment and scoring rows of process.py and analise-pontuacao.py
CadRowsP == {CadRow(c, n, "X", Concluido) : c \in CPFs, n \in {<<>>, NameA, NameAB}}

ConsRowsP ==
    {ConsRow("1", NameAC, "X", m) : m \in Metrics}
      \cup {ConsRow("", NameAB, "X", m) : m \in Metrics}
      \cup {ConsRow("", NameAC, "X", 3), ConsRow("", <<>>, "X", 7),
            ConsRow("", NameAB, "Y", 3)}

\* rows of analise_pontuacao.py: Status and Concessionaria are read
CadRowsU ==
    {CadRow("1", NameA, "X", Concluido), CadRow("", NameA, "X", Concluido),
     CadRow("", NameA, "Y", Concluido), CadRow("", <<>>, "X", Concluido),
     CadRow("1", <<>>, "Y", Concluido), CadRow("", NameA, "X", "Pendente")}

ConsRowsU ==
    {ConsRow("1", NameAB, "X", 3), ConsRow("1", NameAB, "Y", 7),
     ConsRow("", NameA, "X", 3), ConsRow("", NameA, "Y", 7),
     ConsRow("", NameA, "Y", 3), ConsRow("", <<>>, "X", 3)}

\* rows of the runs that share one historico file
CadRowsL ==
    {CadRow("1", NameA, "X", Concluido), CadRow("", NameA, "X", Concluido),
     CadRow("", NameAB, "X", Concluido)}

ConsRowsL == {ConsRow("1", NameAC, "X", 3)}

\* the scoring table of those runs: no row, or the one row
ConsTablesL == {<<>>} \cup {<<r>> : r \in ConsRowsL}

InitRun(v, cadTables, consTables) ==
    /\ variant = v
    /\ inp = FullInput(v)
    /\ cad \in cadTables
    /\ cons \in consTables
    /\ dfCad = <<>>
    /\ dfCons = <<>>
    /\ consultores_sem_cad = <<>>
    /\ written = {}
    /\ pc = "start"
    /\ i = 1
    /\ results = <<>>
    /\ hist = <<>>
    /\ now = 0
    /\ run = 1
    /\ prev = NoPrev

Init ==
    \/ InitRun("process", SeqsUpTo(CadRowsP, MaxCad), SeqsUpTo(ConsRowsP, MaxCons))
    \/ InitRun("hyphen", SeqsUpTo(CadRowsP, MaxCad), SeqsUpTo(ConsRowsP, MaxCons))
    \/ InitRun("underscore", SeqsUpTo(CadRowsU, MaxCad), SeqsUpTo(ConsRowsU, MaxCons))

Next ==
    \/ P_Normalize
    \/ P_MatchRow
    \/ P_Save
    \/ P_History
    \/ H_Normalize
    \/ H_MatchRow
    \/ H_Finish
    \/ U_Filter
    \/ U_MatchRow
    \/ U_Finish

Spec == Init /\ [][Next]_vars

\* process.py is started again on new input files; the historico file stays
P_NewRun ==
    /\ variant = "process"
    /\ pc \in {"done", "failed"}
    /\ run < MaxRuns
    /\ run' = run + 1
    /\ cad' \in SeqsUpTo(CadRowsL, MaxCad)
    /\ cons' \in ConsTablesL
    /\ prev' = [results |-> results, now |-> now, hist |-> hist]
    /\ dfCad' = <<>>
    /\ dfCons' = <<>>
    /\ consultores_sem_cad' = <<>>
    /\ written' = {}
    /\ pc' = "start"
    /\ i' = 1
    /\ results' = <<>>
    /\ now' = 0
    /\ UNCHANGED <<variant, inp, hist>>

InitLedger == InitRun("process", SeqsUpTo(CadRowsL, MaxCad), ConsTablesL)

NextLedger ==
    \/ P_Normalize
    \/ P_MatchRow
    \/ P_Save
    \/ P_History
    \/ P_NewRun

SpecLedger == InitLedger /\ [][NextLedger]_vars

\* Runs over input that may lack a file or a column, or hold metric cells
\* that are empty or no number
MaxRowsI == 1    \* rows of each table of such a run

CadRowsI ==
    {CadRow("", NameA, "X", Concluido), CadRow("1", NameA, "X", Concluido)}

ConsRowsI ==
    {ConsRow("1", NameAB, "X", 3), ConsRow("", NameAB, "Y", NaN),
     ConsRow("", NameA, "Y", NaN), ConsRow("", NameA, "Y", NotANumber)}

\* a missing file, or both files with any of their columns
InputShapes(v) ==
    {[FullInput(v) EXCEPT !.cadFile = FALSE], [FullInput(v) EXCEPT !.consFile = FALSE]}
      \cup {[FullInput(v) EXCEPT !.cadCols = a, !.consCols = c] :
               a \in SUBSET FullInput(v).cadCols, c \in SUBSET FullInput(v).consCols}

InitInputs ==
    /\ variant \in {"process", "hyphen", "underscore"}
    /\ inp \in InputShapes(variant)
    /\ cad \in SeqsUpTo(CadRowsI, MaxRowsI)
    /\ cons \in SeqsUpTo(ConsRowsI, MaxRowsI)
    /\ dfCad = <<>>
    /\ dfCons = <<>>
    /\ consultores_sem_cad = <<>>
    /\ written = {}
    /\ pc = "start"
    /\ i = 1
    /\ results = <<>>
    /\ hist = <<>>
    /\ now = 0
    /\ run = 1
    /\ prev = NoPrev

SpecInputs == InitInputs /\ [][Next]_vars

----------------------------------------------------------------------------
(* Vocabulary of the properties *)

CpfTiers == {"CPF_EXATO", "CPF"}
NameBranchTiers == {"NOME_CONCESSIONARIA"}
NameTiers == {"NOME_EXATO", "SO_NOME"}
FuzzyTiers == {"NOME_FUZZY_100", "FUZZY_100"}
UnmatchedTiers == {"CADASTRADO_NAO_PONTUOU", "Nenhum", "NONE"}

\* the loop over df_cad has ended
LoopDone == pc \in {"saved", "done", "failed"} \/ (pc = "match" /\ i > Len(dfCad))

\* results[k] is the outcome of dfCad[k]
Done(k) == k \in Idx(results)

SameCpf(row) == {j \in Idx(cons) : cons[j].cpf = row.cpf}

SameName(row) == {j \in Idx(cons) : cons[j].nome = row.nome}

SameNameBranch(row) == {j \in Idx(cons) : cons[j].nome = row.nome /\ cons[j].conc = row.conc}

HasCpfMatch(row) == row.cpf # "" /\ SameCpf(row) # {}

BestScore(nome) == Max({0} \cup {TokenSetRatio(nome, cons[j].nome) : j \in Idx(cons)})

AtBest(nome) == {j \in Idx(cons) : TokenSetRatio(nome, cons[j].nome) = BestScore(nome)}

----------------------------------------------------------------------------
(* C1: when the loop of process.py or analise-pontuacao.py has ended, there *)
(* is exactly one outcome per row of the enrollment table that was read:    *)
(* as many outcomes as rows, the k-th outcome being that of the k-th row.   *)
C1_OneOutcomePerRow ==
    (variant \in {"process", "hyphen"} /\ LoopDone) =>
        /\ Len(results) = Len(cad)
        /\ \A k \in Idx(results) :
             results[k].cpf = cad[k].cpf /\ results[k].nome = cad[k].nome

(* C2: an enrollment row whose CPF is not empty and is the CPF of some      *)
(* scoring row is resolved by the CPF tier, whatever the names are.         *)
C2_CpfFirst ==
    \A k \in Idx(results) :
        HasCpfMatch(dfCad[k]) => results[k].tier \in CpfTiers

C2_Witness ==
    \E k \in Idx(results) :
        /\ HasCpfMatch(dfCad[k])
        /\ results[k].src # 0
        /\ dfCad[k].nome # <<>>
        /\ cons[results[k].src].nome # dfCad[k].nome
        /\ \E j \in Idx(cons) : j # results[k].src /\ cons[j].nome = dfCad[k].nome

(* C3, as stated: in every script, a row with no CPF match for which a      *)
(* scoring row has the same name and the same branch is resolved by the     *)
(* name+branch tier, against the row indexed under that key.                *)
C3_NameBranchEverywhere ==
    \A k \in Idx(results) :
        (~HasCpfMatch(dfCad[k]) /\ dfCad[k].nome # <<>> /\ SameNameBranch(dfCad[k]) # {}) =>
            /\ results[k].tier \in NameBranchTiers
            /\ results[k].src = Max(SameNameBranch(dfCad[k]))

(* C3, amended: analise_pontuacao.py resolves such a row by its name+branch *)
(* tier against the last scoring row of that name and branch;               *)
(* process.py and analise-pontuacao.py have no such tier and resolve a row  *)
(* of non-empty name by the exact-name tier, against the last scoring row   *)
(* of that name, whatever its branch.                                       *)
C3_NameBranch ==
    \A k \in Idx(results) :
        (~HasCpfMatch(dfCad[k]) /\ SameNameBranch(dfCad[k]) # {}) =>
            IF variant = "underscore"
            THEN /\ results[k].tier \in NameBranchTiers
                 /\ results[k].src = Max(SameNameBranch(dfCad[k]))
            ELSE dfCad[k].nome # <<>> =>
                 /\ results[k].tier = "NOME_EXATO"
                 /\ results[k].src = Max(SameName(dfCad[k]))

\* analise_pontuacao.py resolves by name+branch against a row that neither
\* is the last of that name nor has the greatest metric of that name
C3_Witness ==
    \E k \in Idx(results) :
        /\ variant = "underscore"
        /\ results[k].tier \in NameBranchTiers
        /\ dfCad[k].nome # <<>>
        /\ results[k].src # Max(SameName(dfCad[k]))
        /\ \E j \in SameName(dfCad[k]) : cons[j].metric > results[k].metric

(* C4: in process.py and analise-pontuacao.py the fuzzy tier resolves a row *)
(* only when the greatest token-set similarity of its name to the scoring   *)
(* names is 100; a row with no CPF match whose greatest similarity is       *)
(* below 100 is unmatched.                                                  *)
C4_FuzzyThreshold ==
    \A k \in Idx(results) :
        /\ results[k].tier \in FuzzyTiers => BestScore(dfCad[k].nome) = 10000
        /\ (variant \in {"process", "hyphen"} /\ ~HasCpfMatch(dfCad[k])
              /\ BestScore(dfCad[k].nome) < 10000)
             => results[k].tier \in UnmatchedTiers

\* one row accepted by the fuzzy tier, another left unmatched with a best
\* similarity strictly between 0 and 100
C4_Witness ==
    /\ \E k \in Idx(results) : results[k].tier \in FuzzyTiers
    /\ \E k \in Idx(results) :
         /\ results[k].tier \in UnmatchedTiers
         /\ BestScore(dfCad[k].nome) > 0
         /\ BestScore(dfCad[k].nome) < 10000

(* C5: a row resolved by the fuzzy tier is resolved against the first       *)
(* scoring row, in row order, among those of the greatest similarity.       *)
C5_FuzzyFirstInOrder ==
    \A k \in Idx(results) :
        results[k].tier \in FuzzyTiers =>
            /\ results[k].src = Min(AtBest(dfCad[k].nome))
            /\ results[k].metric = cons[Min(AtBest(dfCad[k].nome))].metric

(* C6: a row resolved by the CPF tier is resolved against the last scoring  *)
(* row, in row order, that has its CPF, and reports that row's metric.      *)
C6_CpfLastWins ==
    \A k \in Idx(results) :
        results[k].tier \in CpfTiers =>
            /\ results[k].src = Max(SameCpf(dfCad[k]))
            /\ results[k].metric = cons[Max(SameCpf(dfCad[k]))].metric

C6_Witness ==
    \E k \in Idx(results) :
        /\ results[k].tier \in CpfTiers
        /\ \E j \in SameCpf(dfCad[k]) : cons[j].metric # results[k].metric

(* C7, as stated: a row resolved by the exact-name tier is resolved against *)
(* a scoring row of the greatest metric among those of its name.            *)
C7_NameMaxMetric ==
    \A k \in Idx(results) :
        results[k].tier \in NameTiers =>
            \A j \in SameName(dfCad[k]) : cons[j].metric <= cons[results[k].src].metric

(* C7, amended: analise_pontuacao.py resolves it against the first row of   *)
(* the greatest metric among those of its name; process.py and              *)
(* analise-pontuacao.py resolve it against the last row of its name.        *)
C7_NameTieBreak ==
    \A k \in Idx(results) :
        results[k].tier \in NameTiers =>
            IF variant = "underscore"
            THEN /\ \A j \in SameName(dfCad[k]) : cons[j].metric <= cons[results[k].src].metric
                 /\ results[k].src =
                      Min({j \in SameName(dfCad[k]) : cons[j].metric = cons[results[k].src].metric})
            ELSE results[k].src = Max(SameName(dfCad[k]))

\* analise_pontuacao.py picks a row of the greatest metric that is not the last
\* row of the name
C7_Witness ==
    \E k \in Idx(results) :
        /\ variant = "underscore"
        /\ results[k].tier \in NameTiers
        /\ results[k].src # Max(SameName(dfCad[k]))
        /\ \E j \in SameName(dfCad[k]) : cons[j].metric < results[k].metric

----------------------------------------------------------------------------
(* The historico file across runs of process.py (SpecLedger) *)

Rows(file) == {file[j] : j \in Idx(file)}

\* the identity key of a ledger entry: its CPF, or its name when it has no CPF
LedgerKey(h) == IF h.cpf.d # "" THEN <<"cpf", h.cpf.d>> ELSE <<"nome", h.nome>>

\* the line of the file that the outcome r of a run at ts is written as
DiskEntry(r, ts) ==
    [cpf |-> CsvCell(r.cpf, FALSE), nome |-> r.nome, amostra |-> r.metric,
     data_import |-> ts]

MatchedEntries ==
    {DiskEntry(results[k], now) : k \in {n \in Idx(results) : results[n].src # 0}}

(* C8: after a run, the historico file holds at most one entry per identity *)
(* key (the CPF, or the name when the CPF is empty), and for every entry it *)
(* held before the run and every matched outcome of the run it holds an     *)
(* entry of that key that is at least as recent.                            *)
C8_LedgerOnePerKey ==
    (variant = "process" /\ pc = "done") =>
        /\ \A a, b \in Idx(hist) :
             LedgerKey(hist[a]) = LedgerKey(hist[b]) => a = b
        /\ \A e \in Rows(prev.hist) \cup MatchedEntries :
             \E h \in Rows(hist) :
                LedgerKey(h) = LedgerKey(e) /\ h.data_import >= e.data_import

(* C9: a run that merges the same outcomes as the run before it, with the   *)
(* same data_import, leaves the historico file as that run left it.         *)
C9_MergeIdempotent ==
    (variant = "process" /\ pc = "done" /\ run > 1
       /\ results = prev.results /\ now = prev.now) =>
        /\ Len(hist) = Len(prev.hist)
        /\ Rows(hist) = Rows(prev.hist)

(* C10, as stated: the HISTORICO step adds entries only for outcomes that   *)
(* matched a scoring row; every other line of the file written is a line    *)
(* of the file read.                                                        *)
C10_OnlyMatchedEnter ==
    [][(pc = "saved" /\ pc' = "done") =>
         \A h \in Rows(hist') :
            \/ h \in Rows(to_csv(load_history_safe(hist)))
            \/ \E k \in Idx(results) : results[k].src # 0 /\ h = DiskEntry(results[k], now')
      ]_vars

(* C10, amended: the HISTORICO step adds an entry for every outcome of the  *)
(* run, matched or not: an enrollment row that matched no scoring row gets  *)
(* an entry too, with Amostra 0.                                            *)
C10_EveryOutcomeEnters ==
    (variant = "process" /\ pc = "done") =>
        \A k \in Idx(results) : DiskEntry(results[k], now) \in Rows(hist)

\* a later run over a file that has entries, with an unmatched outcome
C10_Witness ==
    /\ variant = "process"
    /\ pc = "done"
    /\ run > 1
    /\ prev.hist # <<>>
    /\ \E k \in Idx(results) : results[k].src = 0 /\ results[k].metric = 0

----------------------------------------------------------------------------
(* Input errors and bad cells (SpecInputs) *)

BothFiles == inp.cadFile /\ inp.consFile

\* the CPF or the name column of the enrollment or of the scoring sheet is
\* missing
RequiredMissing ==
    \/ ~({"CPF", "Nome"} \subseteq inp.cadCols)
    \/ ~({"CPF", "Nome"} \subseteq inp.consCols)

\* the column of the metric the script reads is there
MetricThere == MetricHeader(variant) \in inp.consCols

(* C11: with both files there, a run whose enrollment or scoring sheet      *)
(* lacks the CPF or the name column ends at its input checks with an error, *)
(* and a run whose sheets have these columns and the metric column does     *)
(* not, whether the branch column is there or not.                          *)
C11_RequiredColumnsFatal ==
    (BothFiles /\ pc # "start") =>
        /\ RequiredMissing => pc = "fatal"
        /\ (~RequiredMissing /\ MetricThere) => pc # "fatal"

(* C12: a run that has ended with an error, at its input checks or later,   *)
(* has written no output file and no historico file.                        *)
C12_NoOutputOnError ==
    pc \in {"fatal", "failed"} => written = {}

(* C13: with every column there, an outcome resolved against a scoring row  *)
(* whose metric cell is empty or no number reports the metric 0, and the    *)
(* loop is never ended by an error before its last row.                     *)
C13_BadMetricIsZero ==
    inp = FullInput(variant) =>
        /\ \A k \in Idx(results) :
             (results[k].src # 0 /\ cons[results[k].src].metric \in {NaN, NotANumber}) =>
                 results[k].metric = 0
        /\ pc = "failed" => i > Len(dfCad)

(* C14: the summary step of analise-pontuacao.py and analise_pontuacao.py   *)
(* never fails: a run whose loop has ended with zero outcomes still reports *)
(* its match rate and ends normally.                                        *)
C14_SummaryNeverFails ==
    (/\ variant \in {"hyphen", "underscore"}
     /\ pc \in {"match", "done", "failed"}
     /\ i > Len(dfCad)
     /\ results = <<>>) => pc # "failed"

(* C15: an enrollment row whose canonical name is empty and whose CPF       *)
(* matches no scoring row is unmatched: no name tier resolves it, even when *)
(* a scoring row has an empty canonical name too.                           *)
C15_EmptyNameUnmatched ==
    \A k \in Idx(results) :
        (dfCad[k].nome = <<>> /\ ~HasCpfMatch(dfCad[k])) =>
            results[k].tier \in UnmatchedTiers

====
